---- MODULE Spec2Model ----
(***************************************************************************)
(* GPS bus tracking WebSocket server: the connection registry (clients),   *)
(* the bus location cache (busLocations), the subscription index           *)
(* (busSubscriptions) and the handlers that read and write them.           *)
(*                                                                         *)
(* Two versions of the server are in the repository.  Spec models          *)
(* src/src/index.ts (register without a duplicate check, a subscribe       *)
(* case).  SpecB models src/unnamed/part_000 (register with a duplicate    *)
(* userId check, no subscribe case, a periodic sweep of dead               *)
(* connections).  The handlers both versions share are defined once.       *)
(*                                                                         *)
(* Every handler runs to completion (one Node.js event loop turn), so      *)
(* each is one action.  sent is the sequence of send steps the last        *)
(* handler made: a direct ws.send is a step to one connection, a           *)
(* forEach loop over a set of sockets is one step to the sockets of the    *)
(* set that passed the loop's readyState test.                             *)
(***************************************************************************)
EXTENDS Integers, FiniteSets, Sequences, TLC

\* Number of WebSocket objects that can exist at the same time.
MaxConns == 2
\* Number of events (connections, messages, closes) a run handles.
MaxSteps == 6
\* Number of termination signals a run handles.
MaxSignals == 2

Conns == 1..MaxConns
UserIds == {"u1", "u2"}
BusIds == {"b1", "b2"}
\* The location payloads (latitude, longitude, accuracy, timestamp) in use.
Locs == {1, 2}
\* A field that is undefined, missing or the empty string: falsy in the code.
None == ""
ClientTypes == {"bus_driver", "admin", "passenger"}

VARIABLES
  clients,          \* Map<WebSocket, ClientInfo>: a function on the tracked sockets
  busLocations,     \* Map<string, BroadcastLocationData>: a function on the cached busIds
  busSubscriptions, \* Map<string, Set<WebSocket>>: a function on the subscribed busIds
  wsState,          \* per socket: "FREE" (no socket object), "OPEN", "CLOSING"
  sent,             \* the send steps of the last handler, in order
  ev,               \* the event the last handler handled, with the locals it captured
  steps,            \* the number of events handled so far
  running,          \* the Node.js process is alive
  shut              \* the listener, the intervals and the timers of a shutdown

vars ==
  <<clients, busLocations, busSubscriptions, wsState, sent, ev, steps, running,
    shut>>
core == <<clients, busLocations, busSubscriptions>>

----------------------------------------------------------------------------
\* Map operations

MapPut(f, k, v) == [x \in (DOMAIN f) \cup {k} |-> IF x = k THEN v ELSE f[x]]
MapDel(f, k) == [x \in (DOMAIN f) \ {k} |-> f[x]]
EmptyMap == [x \in {} |-> None]

----------------------------------------------------------------------------
\* Inbound messages: the fields of ClientMessage a handler reads.  data is a
\* member of Locs, or 0 when the message has no data.

Msg(t, u, ct, b, d, s) ==
  [type |-> t, userId |-> u, clientType |-> ct, busId |-> b, data |-> d,
   subscribeToBusId |-> s]

RegisterMsgs ==
  {Msg("register", u, ct, b, 0, None) :
     u \in UserIds \cup {None}, ct \in ClientTypes, b \in BusIds \cup {None}}
  \cup {Msg("register", u, None, None, d, None) :
     u \in UserIds \cup {None}, d \in Locs \cup {0}}
LocationUpdateMsgs ==
  {Msg("location_update", u, None, b, d, None) :
     u \in UserIds \cup {None}, b \in BusIds \cup {None}, d \in Locs \cup {0}}
SubscribeMsgs ==
  {Msg("subscribe", u, None, None, 0, s) :
     u \in UserIds \cup {None}, s \in BusIds \cup {None}}
UnsubscribeMsgs ==
  {Msg("unsubscribe", u, None, None, 0, None) : u \in UserIds \cup {None}}
\* A message whose type is none of the four.
OtherMsgs == {Msg("ping", u, None, None, 0, None) : u \in UserIds \cup {None}}

----------------------------------------------------------------------------
\* Outbound messages and send steps

\* An error message; its text is a tuple of the pieces of the template string.
ErrorMsg(text) == [type |-> "error", message |-> text]
\* The acknowledgement with the count taken before the new socket is tracked.
AckMsgCountBefore(n) ==
  [type |-> "connection_ack", message |-> "Connected to GPS tracking server",
   clientCount |-> n - 1]

AckMsg(n) ==
  [type |-> "connection_ack", message |-> "Connected to GPS tracking server",
   clientCount |-> n]
LocationMsg(d) == [type |-> "location_broadcast", data |-> d]
\* The client_list message built from the maps cl and locs.
ClientListMsg(cl, locs) ==
  [type |-> "client_list", clients |-> cl, activeBuses |-> DOMAIN locs,
   clientCount |-> Cardinality(DOMAIN cl)]

\* ws.send(msg) on socket c.
SendTo(c, msg) == <<[to |-> {c}, msg |-> msg]>>
\* set.forEach(client => { if (client.readyState === OPEN) client.send(msg) }).
SendToOpen(set, msg) ==
  LET open == {c \in set : wsState[c] = "OPEN"}
  IN  IF open = {} THEN <<>> ELSE <<[to |-> open, msg |-> msg]>>

\* The client list broadcast twice.
BroadcastClientListTwice(cl, locs) ==
  SendToOpen(DOMAIN cl, ClientListMsg(cl, locs))
  \o SendToOpen(DOMAIN cl, ClientListMsg(cl, locs))

\* broadcastClientList() over the maps cl and locs.
BroadcastClientList(cl, locs) == SendToOpen(DOMAIN cl, ClientListMsg(cl, locs))

\* The removal left out: the socket stays in the set of bus b.
RemoveSubscriberKeep(subs, b, c) == subs

\* The socket deleted from the set of bus b and the set kept when it is left
\* empty.
RemoveSubscriberLeaveEmpty(subs, b, c) ==
  IF b \in DOMAIN subs THEN MapPut(subs, b, subs[b] \ {c}) ELSE subs

\* The subscriber set of bus b with socket c deleted, and the key pruned when
\* the set is left empty.
RemoveSubscriber(subs, b, c) ==
  IF b \in DOMAIN subs
  THEN IF subs[b] \ {c} = {} THEN MapDel(subs, b)
       ELSE MapPut(subs, b, subs[b] \ {c})
  ELSE subs

\* The event record: its kind, the socket it is about, the busId it concerns
\* (the target of a subscribe, the bus of a closing driver) and the
\* subscription the socket held when the event arrived.
Event(kind, c, bus, old) == [kind |-> kind, conn |-> c, bus |-> bus, old |-> old]

\* The subscription socket c holds, None for a socket that is not tracked.
SubscriptionOf(c) ==
  IF c \in DOMAIN clients THEN clients[c].subscribedToBusId ELSE None

----------------------------------------------------------------------------
Init ==
  /\ clients = EmptyMap
  /\ busLocations = EmptyMap
  /\ busSubscriptions = EmptyMap
  /\ wsState = [c \in Conns |-> "FREE"]
  /\ sent = <<>>
  /\ ev = Event("init", 0, None, None)
  /\ steps = 0
  /\ running = TRUE
  /\ shut = [signals |-> 0, listening |-> TRUE, intervals |-> TRUE,
             closeTimers |-> {}, serverTimers |-> 0, wssCallbacks |-> 0,
             forceTimers |-> 0]

\* One more callback runs, while the process is alive and the run's budget
\* lasts.
Budget ==
  /\ running
  /\ steps < MaxSteps
  /\ steps' = steps + 1

\* One more event is handled; the process stays alive and no timer, interval
\* or listener changes.
Tick ==
  /\ Budget
  /\ running' = running
  /\ shut' = shut

\* wss.on("connection"): the new socket is tracked as a passenger with an
\* empty userId, and is sent connection_ack and then the client list.
Connect(c) ==
  /\ Tick
  /\ shut.listening
  /\ c \notin shut.closeTimers
  /\ wsState[c] = "FREE"
  /\ c \notin DOMAIN clients
  /\ LET info == [type |-> "passenger", userId |-> None, busId |-> None,
                  subscribedToBusId |-> None]
         cl == MapPut(clients, c, info)
     IN  /\ clients' = cl
         /\ sent' = SendTo(c, AckMsg(Cardinality(DOMAIN cl)))
                    \o SendTo(c, ClientListMsg(cl, busLocations))
  /\ wsState' = [wsState EXCEPT ![c] = "OPEN"]
  /\ ev' = Event("connection", c, None, None)
  /\ UNCHANGED <<busLocations, busSubscriptions>>

\* The transport leaves the OPEN state (a close frame arrived, the peer went
\* away): readyState is CLOSING until the close event is delivered.
BeginClose(c) ==
  /\ Tick
  /\ wsState[c] = "OPEN"
  /\ wsState' = [wsState EXCEPT ![c] = "CLOSING"]
  /\ sent' = <<>>
  /\ ev' = Event("closing", c, None, SubscriptionOf(c))
  /\ UNCHANGED core

\* A handler that replies with one error to the sender and changes nothing.
Reject(c, text) ==
  /\ sent' = SendTo(c, ErrorMsg(<<text>>))
  /\ UNCHANGED core

\* handleLocationUpdate with the message sent to every tracked socket instead
\* of the subscribers of the bus.
HandleLocationUpdateToAll(d) ==
  /\ busLocations' = MapPut(busLocations, d.busId, d)
  /\ sent' = SendToOpen(DOMAIN clients, LocationMsg(d))
  /\ UNCHANGED <<clients, busSubscriptions>>

\* handleLocationUpdate(locationData): the cache entry of the bus is set and
\* the message goes to the open subscribers of that bus.
HandleLocationUpdate(d) ==
  /\ busLocations' = MapPut(busLocations, d.busId, d)
  /\ sent' = IF d.busId \in DOMAIN busSubscriptions
             THEN SendToOpen(busSubscriptions[d.busId], LocationMsg(d))
             ELSE <<>>
  /\ UNCHANGED <<clients, busSubscriptions>>

\* The acceptance test without the test of the sender's role.
MayBroadcastAnyRole(c, m) ==
  /\ m.data \in Locs
  /\ clients[c].busId # None

\* The test that accepts a location update from socket c.
MayBroadcast(c, m) ==
  /\ m.data \in Locs
  /\ clients[c].type \in {"bus_driver", "admin"}
  /\ clients[c].busId # None

\* The payload with the identity fields taken from the message.
BroadcastLocDataOfMessage(c, m) ==
  [loc |-> m.data, busId |-> clients[c].busId, userId |-> m.userId]

\* broadcastLocData: the payload of the message with the busId and the userId
\* of the sender's ClientInfo.
BroadcastLocData(c, m) ==
  [loc |-> m.data, busId |-> clients[c].busId, userId |-> clients[c].userId]

\* case "location_update".
LocationUpdateCase(c, m) ==
  IF m.userId = None THEN Reject(c, "register first with userId")
  ELSE IF MayBroadcast(c, m)
  THEN HandleLocationUpdate(BroadcastLocData(c, m))
  ELSE IF clients[c].busId = None
  THEN Reject(c, "Must register with a busId to send location updates")
  ELSE Reject(c, "Only bus drivers and admins can broadcast location updates")

\* The ClientInfo a valid register message leaves: type and userId are set,
\* busId is set only when the message carries one.
Registered(info, m) ==
  [info EXCEPT !.type = m.clientType,
               !.busId = IF m.busId # None THEN m.busId ELSE @,
               !.userId = m.userId]

\* case "register", after the userId tests: with a clientType the message is
\* validated and applied; without one the switch falls through to
\* case "location_update".
RegisterApply(c, m) ==
  IF m.clientType # None
  THEN IF m.clientType = "bus_driver" /\ m.busId = None
       THEN Reject(c, "bus_driver must register with busId")
       ELSE IF m.clientType # "bus_driver" /\ m.busId # None
       THEN Reject(c, "clientTypes that are not bus drivers must not have busId")
       ELSE LET cl == MapPut(clients, c, Registered(clients[c], m))
            IN  /\ clients' = cl
                /\ sent' = BroadcastClientList(cl, busLocations)
                /\ UNCHANGED <<busLocations, busSubscriptions>>
  ELSE LocationUpdateCase(c, m)

\* case "register" of src/src/index.ts.
RegisterCase(c, m) ==
  IF m.userId = None THEN Reject(c, "register first with userId")
  ELSE RegisterApply(c, m)

\* The replay sent to every subscriber of bus b instead of the new one alone.
ReplayToAllSubscribers(c, b) ==
  IF b \in DOMAIN busLocations
  THEN SendToOpen({c} \cup (IF b \in DOMAIN busSubscriptions
                            THEN busSubscriptions[b] ELSE {}),
                  LocationMsg(busLocations[b]))
  ELSE <<>>

\* The replay of a subscribe: the cached location of bus b, when there is
\* one, goes to the subscriber.
Replay(c, b) ==
  IF b \in DOMAIN busLocations
  THEN SendTo(c, LocationMsg(busLocations[b]))
  ELSE <<>>

\* case "subscribe" of src/src/index.ts.
SubscribeCase(c, m) ==
  IF m.userId = None THEN Reject(c, "register first with userId")
  ELSE IF m.subscribeToBusId = None
  THEN Reject(c, "Must specify busId to subscribe to")
  ELSE LET b == m.subscribeToBusId
           old == clients[c].subscribedToBusId
           pruned == IF old # None
                     THEN RemoveSubscriber(busSubscriptions, old, c)
                     ELSE busSubscriptions
           members == IF b \in DOMAIN pruned THEN pruned[b] ELSE {}
       IN  /\ clients' = [clients EXCEPT ![c].subscribedToBusId = b]
           /\ busSubscriptions' = MapPut(pruned, b, members \cup {c})
           /\ sent' = Replay(c, b)
           /\ UNCHANGED busLocations

\* case "unsubscribe" with an error for a socket that holds no subscription.
UnsubscribeCaseStrict(c, m) ==
  IF m.userId = None THEN Reject(c, "register first with userId")
  ELSE IF clients[c].subscribedToBusId # None
  THEN /\ busSubscriptions' =
            RemoveSubscriber(busSubscriptions, clients[c].subscribedToBusId, c)
       /\ clients' = [clients EXCEPT ![c].subscribedToBusId = None]
       /\ sent' = <<>>
       /\ UNCHANGED busLocations
  ELSE Reject(c, "Not subscribed to any bus")

\* case "unsubscribe".
UnsubscribeCase(c, m) ==
  IF m.userId = None THEN Reject(c, "register first with userId")
  ELSE IF clients[c].subscribedToBusId # None
  THEN /\ busSubscriptions' =
            RemoveSubscriber(busSubscriptions, clients[c].subscribedToBusId, c)
       /\ clients' = [clients EXCEPT ![c].subscribedToBusId = None]
       /\ sent' = <<>>
       /\ UNCHANGED busLocations
  ELSE /\ sent' = <<>>
       /\ UNCHANGED core

\* default: of the switch.
DefaultCase(c) == Reject(c, "Unknown message type")

\* The event of a socket that is not tracked answered with a client list.
NotTrackedBroadcast ==
  /\ sent' = SendToOpen(DOMAIN clients, ClientListMsg(clients, busLocations))
  /\ UNCHANGED core

\* handleClientMessage returns at once for a socket that is not tracked.
NotTracked ==
  /\ sent' = <<>>
  /\ UNCHANGED core

\* ws.on("message") for each message type, src/src/index.ts.
Register(c, m) ==
  /\ Tick
  /\ wsState[c] # "FREE"
  /\ IF c \in DOMAIN clients THEN RegisterCase(c, m) ELSE NotTracked
  /\ ev' = Event("register", c, None, SubscriptionOf(c))
  /\ UNCHANGED wsState

LocationUpdate(c, m) ==
  /\ Tick
  /\ wsState[c] # "FREE"
  /\ IF c \in DOMAIN clients THEN LocationUpdateCase(c, m) ELSE NotTracked
  /\ ev' = Event("location_update", c, None, SubscriptionOf(c))
  /\ UNCHANGED wsState

Subscribe(c, m) ==
  /\ Tick
  /\ wsState[c] # "FREE"
  /\ IF c \in DOMAIN clients THEN SubscribeCase(c, m) ELSE NotTracked
  /\ ev' = Event("subscribe", c, m.subscribeToBusId, SubscriptionOf(c))
  /\ UNCHANGED wsState

Unsubscribe(c, m) ==
  /\ Tick
  /\ wsState[c] # "FREE"
  /\ IF c \in DOMAIN clients THEN UnsubscribeCase(c, m) ELSE NotTracked
  /\ ev' = Event("unsubscribe", c, None, SubscriptionOf(c))
  /\ UNCHANGED wsState

OtherMessage(c, m) ==
  /\ Tick
  /\ wsState[c] # "FREE"
  /\ IF c \in DOMAIN clients THEN DefaultCase(c) ELSE NotTracked
  /\ ev' = Event("other", c, None, SubscriptionOf(c))
  /\ UNCHANGED wsState

\* Frames that are not a JSON object: text that is not JSON, the JSON value
\* null, and a JSON scalar (a number, a string, a boolean).
Frames == {"not_json", "json_null", "json_scalar"}

\* JSON.parse(message.toString()) returns a value; it throws otherwise.
ParseOk(f) == f # "not_json"

\* A parse failure answered with an error instead of being swallowed.
CaughtReply(c) ==
  /\ sent' = SendTo(c, ErrorMsg(<<"Invalid message format">>))
  /\ UNCHANGED core

\* catch (err) {}: the exception is swallowed, nothing is sent or changed.
Caught(c) ==
  /\ sent' = <<>>
  /\ UNCHANGED core

\* ws.on("message") with a frame that is not a JSON object.  Text that is not
\* JSON makes JSON.parse throw.  null is parsed, and reading message.type
\* of it in handleClientMessage throws; both exceptions end in the catch.  A
\* scalar is parsed and its type is undefined, so it reaches default.
MessageFrame(c, f) ==
  /\ Tick
  /\ wsState[c] # "FREE"
  /\ IF ~ParseOk(f) THEN Caught(c)
     ELSE IF c \notin DOMAIN clients THEN NotTracked
     ELSE IF f = "json_null" THEN Caught(c)
     ELSE DefaultCase(c)
  /\ ev' = Event(IF f = "json_scalar" THEN "other" ELSE "malformed", c, None,
                 SubscriptionOf(c))
  /\ UNCHANGED wsState

\* The scan for drivers made over the map as it was before the closing
\* socket was deleted from it.
DriversOfBeforeDelete(cl, b) ==
  {x \in DOMAIN clients :
     clients[x].type = "bus_driver" /\ clients[x].busId = b}

\* The drivers of bus b among the clients cl.
DriversOf(cl, b) ==
  {x \in DOMAIN cl : cl[x].type = "bus_driver" /\ cl[x].busId = b}

\* The notification with the client list sent before the offline error.
OfflineNoticeListFirst(set, b, cl, locs) ==
  SendToOpen(set, ClientListMsg(cl, locs))
  \o SendToOpen(set, ErrorMsg(<<"Bus ", b, " went offline">>))

\* The notification of the subscribers of bus b that lost its last driver:
\* the offline error, then the client list.
OfflineNotice(set, b, cl, locs) ==
  SendToOpen(set, ErrorMsg(<<"Bus ", b, " went offline">>))
  \o SendToOpen(set, ClientListMsg(cl, locs))

\* The body of ws.on("close") for a tracked socket c.
CloseTracked(c) ==
  LET info == clients[c]
      wasBusDriver == info.type = "bus_driver" /\ info.busId # None
      b == info.busId
      subs == IF info.subscribedToBusId # None
              THEN RemoveSubscriber(busSubscriptions, info.subscribedToBusId, c)
              ELSE busSubscriptions
      cl == MapDel(clients, c)
      evict == wasBusDriver /\ DriversOf(cl, b) = {}
      locs == IF evict THEN MapDel(busLocations, b) ELSE busLocations
      notify == IF evict /\ b \in DOMAIN subs
                THEN OfflineNotice(subs[b], b, cl, locs)
                ELSE <<>>
  IN  /\ clients' = cl
      /\ busSubscriptions' = subs
      /\ busLocations' = locs
      /\ sent' = notify \o BroadcastClientList(cl, locs)

\* The bus a closing socket drove, or None.
DrivenBus(c) ==
  IF c \in DOMAIN clients /\ clients[c].type = "bus_driver"
  THEN clients[c].busId
  ELSE None

\* ws.on("close"): the socket is gone afterwards.
Close(c) ==
  /\ Tick
  /\ wsState[c] # "FREE"
  /\ IF c \in DOMAIN clients THEN CloseTracked(c) ELSE NotTracked
  /\ wsState' = [wsState EXCEPT ![c] = "FREE"]
  /\ ev' = Event("close", c, DrivenBus(c), SubscriptionOf(c))

\* The process exits: its maps and its sockets are gone.
ProcessExit ==
  /\ running' = FALSE
  /\ clients' = EmptyMap
  /\ busLocations' = EmptyMap
  /\ busSubscriptions' = EmptyMap
  /\ wsState' = [x \in Conns |-> "FREE"]
  /\ sent' = <<>>
  /\ shut' = [shut EXCEPT !.listening = FALSE, !.intervals = FALSE,
                          !.closeTimers = {}, !.serverTimers = 0,
                          !.wssCallbacks = 0, !.forceTimers = 0]

\* The socket emits "error" (a frame that violates the protocol, a payload
\* over the limit).  No listener for "error" is registered on the socket, so
\* the emit throws; src/src/index.ts registers no uncaughtException handler,
\* so the process exits.  An error that destroys the socket without an
\* "error" event is BeginClose followed by Close.
ErrorEvent(c) ==
  /\ Budget
  /\ wsState[c] # "FREE"
  /\ ProcessExit
  /\ ev' = Event("error", c, DrivenBus(c), SubscriptionOf(c))

\* wss.close(): the server stops accepting connections.  Whether it also
\* terminates the connected sockets depends on the version of the ws
\* library, so both outcomes are possible: with terminate every open socket
\* goes to CLOSING (its close event follows), without it the sockets stay as
\* they are.
WssClose(terminate) ==
  wsState' = IF terminate
             THEN [c \in Conns |->
                     IF wsState[c] = "OPEN" THEN "CLOSING" ELSE wsState[c]]
             ELSE wsState

\* process.on("SIGINT") of src/src/index.ts: wss.close, then server.close,
\* then process.exit(0).  Nothing is sent and no timer is set.
Sigint(terminate) ==
  /\ Budget
  /\ shut.signals < MaxSignals
  /\ shut' = [shut EXCEPT !.signals = @ + 1, !.listening = FALSE]
  /\ WssClose(terminate)
  /\ sent' = <<>>
  /\ running' = running
  /\ ev' = Event("signal", 0, None, None)
  /\ UNCHANGED core

\* The callback of server.close() in src/src/index.ts: it runs once every
\* connection of the HTTP server has ended, and exits the process.
ServerClosed ==
  /\ Budget
  /\ shut.signals > 0
  /\ \A c \in Conns : wsState[c] = "FREE"
  /\ ProcessExit
  /\ ev' = Event("exit", 0, None, None)

Next ==
  \/ \E c \in Conns : Connect(c)
  \/ \E c \in Conns : BeginClose(c)
  \/ \E c \in Conns : Close(c)
  \/ \E c \in Conns, m \in RegisterMsgs : Register(c, m)
  \/ \E c \in Conns, m \in LocationUpdateMsgs : LocationUpdate(c, m)
  \/ \E c \in Conns, m \in SubscribeMsgs : Subscribe(c, m)
  \/ \E c \in Conns, m \in UnsubscribeMsgs : Unsubscribe(c, m)
  \/ \E c \in Conns, m \in OtherMsgs : OtherMessage(c, m)
  \/ \E c \in Conns, f \in Frames : MessageFrame(c, f)
  \/ \E c \in Conns : ErrorEvent(c)
  \/ \E terminate \in BOOLEAN : Sigint(terminate)
  \/ ServerClosed

Spec == Init /\ [][Next]_vars

----------------------------------------------------------------------------
\* src/unnamed/part_000: the version with the duplicate userId check, without
\* a subscribe case, with the periodic sweep.

\* The scan for the userId left out: no register is a duplicate.
DuplicateUserIdNever(c, m) == FALSE

\* Another tracked socket holds the userId of message m.
DuplicateUserId(c, m) ==
  \E o \in DOMAIN clients \ {c} : clients[o].userId = m.userId

\* case "register" of src/unnamed/part_000.
RegisterCaseB(c, m) ==
  IF m.userId = None THEN Reject(c, "register first with userId")
  ELSE IF DuplicateUserId(c, m)
  THEN Reject(c, "A connection for this userId already exists. Only the first connection is kept.")
  ELSE RegisterApply(c, m)

RegisterB(c, m) ==
  /\ Tick
  /\ wsState[c] # "FREE"
  /\ IF c \in DOMAIN clients THEN RegisterCaseB(c, m) ELSE NotTracked
  /\ ev' = Event("register", c, None, SubscriptionOf(c))
  /\ UNCHANGED wsState

\* A subscribe message in src/unnamed/part_000: the switch has no case for
\* it, so it reaches default.
SubscribeB(c, m) ==
  /\ Tick
  /\ wsState[c] # "FREE"
  /\ IF c \in DOMAIN clients THEN DefaultCase(c) ELSE NotTracked
  /\ ev' = Event("subscribe", c, m.subscribeToBusId, SubscriptionOf(c))
  /\ UNCHANGED wsState

\* The tracked sockets whose readyState is CLOSED or CLOSING.
DeadConnections == {c \in DOMAIN clients : wsState[c] = "CLOSING"}

\* The subscription index after each socket of dead has been deleted from the
\* set of the bus it subscribed to.
RECURSIVE RemoveDead(_, _)
RemoveDead(subs, dead) ==
  IF dead = {} THEN subs
  ELSE LET c == CHOOSE x \in dead : TRUE
           b == clients[c].subscribedToBusId
       IN  RemoveDead(IF b # None THEN RemoveSubscriber(subs, b, c) ELSE subs,
                      dead \ {c})

\* The client list built from the registry as it was before the dead sockets
\* were deleted.
SweepListStale(cl) == BroadcastClientList(clients, busLocations)

\* broadcastClientList() at the end of a sweep that deleted a socket: the
\* registry is cl by then.
SweepList(cl) == BroadcastClientList(cl, busLocations)

\* cleanupDeadConnections(), the callback of the 2 minute interval.
Sweep ==
  /\ Tick
  /\ shut.intervals
  /\ IF DeadConnections # {}
     THEN LET cl == [c \in (DOMAIN clients) \ DeadConnections |-> clients[c]]
          IN  /\ clients' = cl
              /\ busSubscriptions' = RemoveDead(busSubscriptions, DeadConnections)
              /\ sent' = SweepList(cl)
              /\ UNCHANGED busLocations
     ELSE /\ sent' = <<>>
          /\ UNCHANGED core
  /\ ev' = Event("sweep", 0, None, None)
  /\ UNCHANGED wsState

\* The callback of the 30 second interval: a ping to every open socket.  A
\* ping is a control frame: no message is sent and no map is touched.
Heartbeat ==
  /\ Tick
  /\ shut.intervals
  /\ sent' = <<>>
  /\ ev' = Event("heartbeat", 0, None, None)
  /\ UNCHANGED <<core, wsState>>

\* The body of process.on("SIGINT") of src/unnamed/part_000, with the
\* readyState of the sockets given by state: the two intervals are cleared,
\* every open tracked socket is sent the shutdown error and gets a 100 ms
\* timer that closes it, and a 500 ms timer is set for the server.
Shutdown(state) ==
  LET open == {c \in DOMAIN clients : state[c] = "OPEN"}
  IN  /\ sent' = IF open = {} THEN <<>>
                 ELSE <<[to |-> open,
                         msg |-> ErrorMsg(<<"Server is shutting down">>)]>>
      /\ shut' = [shut EXCEPT !.signals = @ + 1, !.intervals = FALSE,
                              !.closeTimers = @ \cup open,
                              !.serverTimers = @ + 1]
      /\ UNCHANGED core

\* SIGINT, and SIGTERM and unhandledRejection, which emit SIGINT.
SigintB ==
  /\ Budget
  /\ shut.signals < MaxSignals
  /\ Shutdown(wsState)
  /\ wsState' = wsState
  /\ running' = running
  /\ ev' = Event("signal", 0, None, None)

\* The socket emits "error" and no listener is registered: the emit throws,
\* and process.on("uncaughtException") emits SIGINT.  The socket that failed
\* is already CLOSING when the handler runs.
ErrorEventB(c) ==
  /\ Budget
  /\ shut.signals < MaxSignals
  /\ wsState[c] # "FREE"
  /\ Shutdown([wsState EXCEPT ![c] = "CLOSING"])
  /\ wsState' = [wsState EXCEPT ![c] = "CLOSING"]
  /\ running' = running
  /\ ev' = Event("error", c, DrivenBus(c), SubscriptionOf(c))

\* The 100 ms timer of socket c: ws.close(1001) when it is still open.
CloseTimer(c) ==
  /\ Budget
  /\ c \in shut.closeTimers
  /\ shut' = [shut EXCEPT !.closeTimers = @ \ {c}]
  /\ wsState' = IF wsState[c] = "OPEN"
                THEN [wsState EXCEPT ![c] = "CLOSING"]
                ELSE wsState
  /\ sent' = <<>>
  /\ running' = running
  /\ ev' = Event("close_timer", c, None, None)
  /\ UNCHANGED core

\* The 500 ms timer: wss.close(callback).  The 100 ms timers set by the same
\* handler have fired before it.  The callback runs when the WebSocket
\* server has closed: at once when wss.close terminates the sockets or none
\* is left, and otherwise when the last socket has gone (WssClosed).
ServerCloseTimer(terminate) ==
  LET now == terminate \/ \A c \in Conns : wsState[c] = "FREE"
  IN  /\ Budget
      /\ shut.serverTimers > 0
      /\ shut.closeTimers = {}
      /\ shut' = [shut EXCEPT !.serverTimers = @ - 1, !.listening = FALSE,
                              !.wssCallbacks = IF now THEN @ ELSE @ + 1,
                              !.forceTimers = IF now THEN @ + 1 ELSE @]
      /\ WssClose(terminate)
      /\ sent' = <<>>
      /\ running' = running
      /\ ev' = Event("server_timer", 0, None, None)
      /\ UNCHANGED core

\* The callbacks of wss.close() that waited for the last socket to go: each
\* calls server.close() and sets the 5 second timer of the forced exit.
WssClosed ==
  /\ Budget
  /\ shut.wssCallbacks > 0
  /\ \A c \in Conns : wsState[c] = "FREE"
  /\ shut' = [shut EXCEPT !.wssCallbacks = 0,
                          !.forceTimers = @ + shut.wssCallbacks]
  /\ sent' = <<>>
  /\ running' = running
  /\ ev' = Event("wss_closed", 0, None, None)
  /\ UNCHANGED <<core, wsState>>

\* The callback of server.close(): every connection has ended, exit(0).
ServerClosedB ==
  /\ Budget
  /\ shut.forceTimers > 0
  /\ \A c \in Conns : wsState[c] = "FREE"
  /\ ProcessExit
  /\ ev' = Event("exit", 0, None, None)

\* The 5 second timer: process.exit(1), whatever the sockets are doing.
ForceExit ==
  /\ Budget
  /\ shut.forceTimers > 0
  /\ ProcessExit
  /\ ev' = Event("forced_exit", 0, None, None)

NextB ==
  \/ \E c \in Conns : Connect(c)
  \/ \E c \in Conns : BeginClose(c)
  \/ \E c \in Conns : Close(c)
  \/ \E c \in Conns, m \in RegisterMsgs : RegisterB(c, m)
  \/ \E c \in Conns, m \in LocationUpdateMsgs : LocationUpdate(c, m)
  \/ \E c \in Conns, m \in SubscribeMsgs : SubscribeB(c, m)
  \/ \E c \in Conns, m \in UnsubscribeMsgs : Unsubscribe(c, m)
  \/ \E c \in Conns, m \in OtherMsgs : OtherMessage(c, m)
  \/ \E c \in Conns, f \in Frames : MessageFrame(c, f)
  \/ Sweep
  \/ Heartbeat
  \/ SigintB
  \/ \E c \in Conns : ErrorEventB(c)
  \/ \E c \in Conns : CloseTimer(c)
  \/ \E terminate \in BOOLEAN : ServerCloseTimer(terminate)
  \/ WssClosed
  \/ ServerClosedB
  \/ ForceExit

SpecB == Init /\ [][NextB]_vars

----------------------------------------------------------------------------
\* Properties

\* The steps of a handler's output.
Steps(q) == {q[i] : i \in 1..Len(q)}
IsBroadcast(step) == step.msg.type = "location_broadcast"
IsError(step) == step.msg.type = "error"
IsClientList(step) == step.msg.type = "client_list"

\* C1: every location_broadcast goes only to sockets that are subscribed to
\* the bus it carries, and are in that bus's subscriber set, when it is sent;
\* the broadcast of an accepted location update carries the sender's
\* registered busId and goes to a subset of that bus's subscriber set.
FanOutScoping ==
  [][\A step \in Steps(sent') :
       IsBroadcast(step) =>
         LET x == step.msg.data.busId
         IN  /\ x \in DOMAIN busSubscriptions'
             /\ step.to \subseteq busSubscriptions'[x]
             /\ \A r \in step.to :
                  r \in DOMAIN clients' /\ clients'[r].subscribedToBusId = x
             /\ ev'.kind \in {"location_update", "register"} =>
                  /\ x = clients[ev'.conn].busId
                  /\ x \in DOMAIN busSubscriptions
                  /\ step.to \subseteq busSubscriptions[x]]_vars

\* C1 witness: a location update was broadcast to a subscriber of the
\* sender's bus while another socket, subscribed to a different bus, got
\* nothing.
FanOutScopingWitness ==
  /\ ev.kind = "location_update"
  /\ Len(sent) = 1
  /\ IsBroadcast(sent[1])
  /\ \E o \in DOMAIN clients :
       /\ clients[o].subscribedToBusId \in BusIds \ {sent[1].msg.data.busId}
       /\ o \notin sent[1].to
       /\ wsState[o] = "OPEN"

\* A socket whose location updates the role gate rejects: a passenger, or a
\* driver or admin without a busId.
RoleGated(c) ==
  /\ c \in DOMAIN clients
  /\ \/ clients[c].type = "passenger"
     \/ clients[c].type \in {"bus_driver", "admin"} /\ clients[c].busId = None

UserIdUniqueness ==
  \A c1 \in DOMAIN clients, c2 \in DOMAIN clients :
    (c1 # c2 /\ clients[c1].userId # None) =>
      clients[c1].userId # clients[c2].userId

\* C4: a driver has a busId, a passenger or an admin has none.
RoleBusIdInvariant ==
  \A c \in DOMAIN clients :
    /\ clients[c].type = "bus_driver" => clients[c].busId # None
    /\ clients[c].type \in {"passenger", "admin"} => clients[c].busId = None

\* C5: every cached busId has at least one tracked driver of that bus.
CacheTiedToDriverPresence ==
  \A b \in DOMAIN busLocations :
    \E c \in DOMAIN clients :
      clients[c].type = "bus_driver" /\ clients[c].busId = b

\* C6: when a driver of bus x closes and no other tracked socket is a driver
\* of x, x leaves the cache; when another driver of x remains, the entry of x
\* is as it was.  Every client_list lists exactly the cached buses as
\* activeBuses, so an evicted bus is in no later list until it is cached again.
CacheEviction ==
  [][/\ \A step \in Steps(sent') :
          IsClientList(step) => step.msg.activeBuses = DOMAIN busLocations'
     /\ \A c \in DOMAIN clients :
          (ev'.kind = "close" /\ ev'.conn = c
             /\ clients[c].type = "bus_driver" /\ clients[c].busId # None) =>
            LET x == clients[c].busId
                others == {o \in DOMAIN clients \ {c} :
                             clients[o].type = "bus_driver"
                             /\ clients[o].busId = x}
            IN  IF others = {}
                THEN x \notin DOMAIN busLocations'
                ELSE IF x \in DOMAIN busLocations
                THEN /\ x \in DOMAIN busLocations'
                     /\ busLocations'[x] = busLocations[x]
                ELSE x \notin DOMAIN busLocations']_vars

\* C6 witness: a driver of a cached bus closed, another driver of the bus
\* remains, and the entry is still cached.
CacheEvictionWitness ==
  /\ ev.kind = "close"
  /\ ev.bus \in DOMAIN busLocations
  /\ \E o \in DOMAIN clients :
       clients[o].type = "bus_driver" /\ clients[o].busId = ev.bus
  /\ \E step \in Steps(sent) : IsClientList(step)

\* In every state a socket is in at most one subscriber set.
AtMostOneSubscription(subs) ==
  \A c \in Conns : Cardinality({b \in DOMAIN subs : c \in subs[b]}) <= 1

\* What a subscribe of socket c to bus b does to the index: c leaves the set
\* of the bus old it held and is in the set of b; the same bus leaves the index
\* as it was.
Moved(c, old, b) ==
  /\ b \in DOMAIN busSubscriptions'
  /\ c \in busSubscriptions'[b]
  /\ (old # None /\ old # b) =>
       (old \in DOMAIN busSubscriptions' => c \notin busSubscriptions'[old])
  /\ old = b => busSubscriptions' = busSubscriptions

\* C7 as stated: a socket is in at most one subscriber set, and every
\* subscribe to a bus moves the socket to that bus.
SingleSubscriptionAsStated ==
  [][/\ AtMostOneSubscription(busSubscriptions')
     /\ \A c \in DOMAIN clients :
          (ev'.kind = "subscribe" /\ ev'.conn = c /\ ev'.bus # None) =>
            Moved(c, clients[c].subscribedToBusId, ev'.bus)]_vars

\* C7 amended: a socket is in at most one subscriber set, and every subscribe
\* to a bus that carries a userId field moves the socket to that bus.
SingleSubscription ==
  [][/\ AtMostOneSubscription(busSubscriptions')
     /\ \A c \in DOMAIN clients, m \in SubscribeMsgs :
          (Subscribe(c, m) /\ m.userId # None /\ m.subscribeToBusId # None) =>
            Moved(c, clients[c].subscribedToBusId, m.subscribeToBusId)]_vars

\* C7 witness: a socket subscribed to one bus subscribed to another and is now
\* in the second bus's set alone.
SingleSubscriptionWitness ==
  /\ ev.kind = "subscribe"
  /\ ev.old # None
  /\ ev.bus # None
  /\ ev.old # ev.bus
  /\ ev.bus \in DOMAIN busSubscriptions
  /\ ev.conn \in busSubscriptions[ev.bus]
  /\ \A b \in DOMAIN busSubscriptions \ {ev.bus} :
       ev.conn \notin busSubscriptions[b]

\* The replay of bus b to socket c: one location_broadcast with the cached
\* value, to c alone, when b is cached; no location_broadcast otherwise.
Replayed(c, b) ==
  IF b \in DOMAIN busLocations
  THEN sent' = <<[to |-> {c},
                  msg |-> [type |-> "location_broadcast",
                           data |-> busLocations[b]]]>>
  ELSE \A step \in Steps(sent') : ~IsBroadcast(step)

\* C8 as stated: every subscribe to a bus replays the cached value.
ReplayOnSubscribeAsStated ==
  [][\A c \in DOMAIN clients :
       (ev'.kind = "subscribe" /\ ev'.conn = c /\ ev'.bus # None) =>
         Replayed(c, ev'.bus)]_vars

\* C8 amended: every subscribe to a bus that carries a userId field replays
\* the cached value, in the handler of the subscribe itself, so before the
\* handler of any later location update runs; no other subscribe sends a
\* location_broadcast.
ReplayOnSubscribe ==
  [][\A c \in DOMAIN clients, m \in SubscribeMsgs :
       Subscribe(c, m) =>
         IF m.userId # None /\ m.subscribeToBusId # None
         THEN Replayed(c, m.subscribeToBusId)
         ELSE \A step \in Steps(sent') : ~IsBroadcast(step)]_vars

\* C8 witness: a subscribe to a cached bus was answered with the cached value
\* while another socket is subscribed to the same bus.
ReplayOnSubscribeWitness ==
  /\ ev.kind = "subscribe"
  /\ ev.bus \in DOMAIN busLocations
  /\ sent = <<[to |-> {ev.conn}, msg |-> LocationMsg(busLocations[ev.bus])]>>
  /\ ev.bus \in DOMAIN busSubscriptions
  /\ \E o \in busSubscriptions[ev.bus] : o # ev.conn /\ wsState[o] = "OPEN"

\* C9: a subscribe that names a target bus leaves the socket in that bus's
\* subscriber set; a subscribe without a target is answered with one error to
\* the sender and changes nothing.
SubscribeAlwaysSucceeds ==
  [][\A c \in DOMAIN clients :
       (ev'.kind = "subscribe" /\ ev'.conn = c) =>
         IF ev'.bus # None
         THEN /\ ev'.bus \in DOMAIN busSubscriptions'
              /\ c \in busSubscriptions'[ev'.bus]
         ELSE /\ Len(sent') = 1
              /\ sent'[1].to = {c}
              /\ IsError(sent'[1])
              /\ UNCHANGED core]_vars

\* C10 as stated: an unsubscribe of a socket without a subscription sends
\* nothing and changes nothing, and no unsubscribe is answered with an error.
IdempotentUnsubscribeAsStated ==
  [][\A c \in DOMAIN clients :
       (ev'.kind = "unsubscribe" /\ ev'.conn = c) =>
         /\ \A step \in Steps(sent') : ~IsError(step)
         /\ clients[c].subscribedToBusId = None =>
              (sent' = <<>> /\ UNCHANGED core)]_vars

\* C10 amended: an unsubscribe that carries a userId field sends nothing, and
\* changes nothing when the socket holds no subscription; an unsubscribe
\* without a userId field is answered with one error to the sender and changes
\* nothing.
IdempotentUnsubscribe ==
  [][\A c \in DOMAIN clients, m \in UnsubscribeMsgs :
       Unsubscribe(c, m) =>
         IF m.userId # None
         THEN /\ sent' = <<>>
              /\ clients[c].subscribedToBusId = None => UNCHANGED core
         ELSE /\ sent' = <<[to |-> {c},
                            msg |-> [type |-> "error",
                                     message |-> <<"register first with userId">>]]>>
              /\ UNCHANGED core]_vars

\* C10 witness: a socket without a subscription, next to a socket that holds
\* one, unsubscribed and nothing was sent.
IdempotentUnsubscribeWitness ==
  /\ ev.kind = "unsubscribe"
  /\ ev.conn \in DOMAIN clients
  /\ ev.old = None
  /\ sent = <<>>
  /\ busSubscriptions # EmptyMap

\* C11: an accepted location update stores in the cache, under the sender's
\* registered busId, the coordinates of the message with the busId and the
\* userId of the sender's registration, whatever userId and busId the message
\* carries, and sends one location_broadcast with that value to the open
\* sockets of that bus's subscriber set, and nothing else.
IdentityAttachment ==
  [][\A c \in DOMAIN clients, m \in LocationUpdateMsgs :
       (/\ ev'.kind = "location_update"
        /\ ev'.conn = c
        /\ m.userId # None
        /\ m.data \in Locs
        /\ clients[c].type \in {"bus_driver", "admin"}
        /\ clients[c].busId # None
        /\ LocationUpdate(c, m)) =>
         LET x == clients[c].busId
             d == [loc |-> m.data, busId |-> x, userId |-> clients[c].userId]
             subscribers == IF x \in DOMAIN busSubscriptions
                            THEN {r \in busSubscriptions[x] : wsState[r] = "OPEN"}
                            ELSE {}
         IN  /\ busLocations' = [b \in DOMAIN busLocations \cup {x} |->
                                   IF b = x THEN d ELSE busLocations[b]]
             /\ sent' = IF subscribers = {} THEN <<>>
                        ELSE <<[to |-> subscribers,
                                msg |-> [type |-> "location_broadcast",
                                         data |-> d]]>>]_vars

\* C11 witness: a location update was broadcast to a subscriber with the
\* sender's registered busId and userId, and the cache holds the same value.
IdentityAttachmentWitness ==
  /\ ev.kind = "location_update"
  /\ ev.conn \in DOMAIN clients
  /\ Len(sent) = 1
  /\ IsBroadcast(sent[1])
  /\ sent[1].to # {}
  /\ sent[1].msg.data.userId = clients[ev.conn].userId
  /\ sent[1].msg.data.busId = clients[ev.conn].busId
  /\ busLocations[clients[ev.conn].busId] = sent[1].msg.data

\* C12: a register without a userId, with a userId another tracked socket
\* holds, as bus_driver without a busId, or as passenger or admin with a
\* busId, is answered with exactly one error, sent to the sender, and changes
\* neither the registry, the cache nor the subscription index; and every
\* register that is answered with an error is answered with that one message
\* alone and changes nothing.
RejectedRegister ==
  [][\A c \in DOMAIN clients :
       LET rejected ==
             /\ Len(sent') = 1
             /\ sent'[1].to = {c}
             /\ IsError(sent'[1])
             /\ UNCHANGED <<clients, busLocations, busSubscriptions>>
           invalid(m) ==
             \/ m.userId = None
             \/ \E o \in DOMAIN clients \ {c} : clients[o].userId = m.userId
             \/ m.clientType = "bus_driver" /\ m.busId = None
             \/ m.clientType \in {"passenger", "admin"} /\ m.busId # None
       IN  (ev'.kind = "register" /\ ev'.conn = c /\ ~rejected) =>
             /\ \A step \in Steps(sent') : ~IsError(step)
             /\ \A m \in RegisterMsgs : invalid(m) => ~RegisterB(c, m)]_vars

\* C12 witness: a register with a userId that another socket holds was
\* rejected, and the sender still has the role and the empty userId of a new
\* connection.
RejectedRegisterWitness ==
  /\ ev.kind = "register"
  /\ ev.conn \in DOMAIN clients
  /\ sent = <<[to |-> {ev.conn},
               msg |-> [type |-> "error",
                        message |-> <<"A connection for this userId already exists. Only the first connection is kept.">>]]>>
  /\ clients[ev.conn].userId = None
  /\ clients[ev.conn].type = "passenger"
  /\ \E o \in DOMAIN clients : clients[o].userId # None

\* What a successful register of message m by socket c leaves: the userId of
\* the message, its role when it names one, its busId for a driver, and one
\* client_list, built from the registry and the cache as they are afterwards,
\* sent to the open tracked sockets and nothing else.
RegisterSucceeded(c, m) ==
  LET open == {r \in DOMAIN clients' : wsState[r] = "OPEN"}
  IN  /\ clients'[c].userId = m.userId
      /\ m.clientType # None => clients'[c].type = m.clientType
      /\ m.clientType = "bus_driver" => clients'[c].busId = m.busId
      /\ sent' = IF open = {} THEN <<>>
                 ELSE <<[to |-> open,
                         msg |-> [type |-> "client_list",
                                  clients |-> clients',
                                  activeBuses |-> DOMAIN busLocations',
                                  clientCount |-> Cardinality(DOMAIN clients')]]>>

\* C13: every register that carries a userId, is not a driver's without a
\* busId and not a non-driver's with a busId, sets the role and the userId of
\* the socket and sends the updated client_list to all open tracked sockets,
\* and nothing else.
SuccessfulRegister ==
  [][\A c \in DOMAIN clients, m \in RegisterMsgs :
       (/\ ev'.kind = "register"
        /\ ev'.conn = c
        /\ m.userId # None
        /\ ~(m.clientType = "bus_driver" /\ m.busId = None)
        /\ ~(m.clientType # "bus_driver" /\ m.busId # None)
        /\ Register(c, m)) => RegisterSucceeded(c, m)]_vars

\* C14: a location update with data, sent with a userId by a socket that is
\* registered as admin, is accepted: no error is sent and the cache holds the
\* coordinates of the message under the admin's userId.
AdminCanPublish ==
  [][\A c \in DOMAIN clients, m \in LocationUpdateMsgs :
       (/\ ev'.kind = "location_update"
        /\ ev'.conn = c
        /\ clients[c].type = "admin"
        /\ m.userId # None
        /\ m.data \in Locs
        /\ LocationUpdate(c, m)) =>
         /\ \A step \in Steps(sent') : ~IsError(step)
         /\ \E b \in DOMAIN busLocations' :
              /\ busLocations'[b].loc = m.data
              /\ busLocations'[b].userId = clients[c].userId]_vars

\* C15: an opening connection is tracked as a passenger with an empty userId
\* and no busId or subscription; it is sent a connection_ack whose clientCount
\* is the number of tracked connections, itself included, and then one
\* client_list of the registry and the cache; nothing goes to any other
\* socket, and the cache and the subscription index are unchanged.
ConnectionOpen ==
  [][\A c \in Conns :
       (ev'.kind = "connection" /\ ev'.conn = c) =>
         /\ c \notin DOMAIN clients
         /\ DOMAIN clients' = DOMAIN clients \cup {c}
         /\ \A o \in DOMAIN clients : clients'[o] = clients[o]
         /\ clients'[c].type = "passenger"
         /\ clients'[c].userId = None
         /\ clients'[c].busId = None
         /\ clients'[c].subscribedToBusId = None
         /\ sent' = <<[to |-> {c},
                       msg |-> [type |-> "connection_ack",
                                message |-> "Connected to GPS tracking server",
                                clientCount |-> Cardinality(DOMAIN clients) + 1]],
                      [to |-> {c},
                       msg |-> [type |-> "client_list",
                                clients |-> clients',
                                activeBuses |-> DOMAIN busLocations,
                                clientCount |-> Cardinality(DOMAIN clients) + 1]]>>
         /\ UNCHANGED <<busLocations, busSubscriptions>>]_vars

\* C15 witness: a second connection opened while a registered driver with a
\* cached bus is connected; its acknowledgement counts two.
ConnectionOpenWitness ==
  /\ ev.kind = "connection"
  /\ Len(sent) = 2
  /\ sent[1].msg.type = "connection_ack"
  /\ sent[1].msg.clientCount = 2
  /\ sent[2].msg.activeBuses # {}
  /\ \E o \in DOMAIN clients \ {ev.conn} :
       wsState[o] = "OPEN" /\ clients[o].type = "bus_driver"

\* C16: a message whose type is none of register, location_update, subscribe
\* and unsubscribe is answered with exactly one error "Unknown message type",
\* sent to the sender, and changes nothing; a message whose type is one of the
\* four is never answered with "Unknown message type".
UnknownMessageType ==
  [][\A c \in DOMAIN clients :
       ev'.conn = c =>
         /\ ev'.kind = "other" =>
              /\ sent' = <<[to |-> {c},
                            msg |-> [type |-> "error",
                                     message |-> <<"Unknown message type">>]]>>
              /\ UNCHANGED <<clients, busLocations, busSubscriptions>>
         /\ ev'.kind \in {"register", "location_update", "subscribe",
                           "unsubscribe"} =>
              \A step \in Steps(sent') :
                ~(IsError(step)
                  /\ step.msg.message = <<"Unknown message type">>)]_vars

TransportErrorIsClose ==
  [][\A c \in DOMAIN clients :
       (ev'.kind = "error" /\ ev'.conn = c) => CloseTracked(c)]_vars

\* C19: a sweep that reaps one socket whose transport is closing leaves the
\* registry, the subscription index and the cache as the close handler of
\* that socket would: the socket is deleted and its subscription released,
\* and when it was the last driver of a bus the cache entry of the bus
\* is deleted and the open subscribers of the bus are sent the offline error.
SweepEqualsClose ==
  [][\A c \in DOMAIN clients :
       (/\ ev'.kind = "sweep"
        /\ {x \in DOMAIN clients : wsState[x] = "CLOSING"} = {c}) =>
         LET b == clients[c].busId
             held == clients[c].subscribedToBusId
             cl == [x \in DOMAIN clients \ {c} |-> clients[x]]
             evict == /\ clients[c].type = "bus_driver"
                      /\ b # None
                      /\ \A x \in DOMAIN cl :
                           ~(cl[x].type = "bus_driver" /\ cl[x].busId = b)
             notified == IF b \in DOMAIN busSubscriptions'
                         THEN {x \in busSubscriptions'[b] : wsState[x] = "OPEN"}
                         ELSE {}
         IN  /\ clients' = cl
             /\ \A x \in DOMAIN busSubscriptions' : c \notin busSubscriptions'[x]
             /\ held # None =>
                  \A x \in DOMAIN busSubscriptions :
                    busSubscriptions[x] \ {c} # {} =>
                      /\ x \in DOMAIN busSubscriptions'
                      /\ busSubscriptions'[x] = busSubscriptions[x] \ {c}
             /\ busLocations' = IF evict
                                THEN [x \in DOMAIN busLocations \ {b} |->
                                        busLocations[x]]
                                ELSE busLocations
             /\ (evict /\ notified # {}) =>
                  \E step \in Steps(sent') :
                    IsError(step) /\ step.to = notified]_vars

\* The text of the offline error of bus b.
IsOffline(step) ==
  IsError(step) /\ \E b \in BusIds : step.msg.message = <<"Bus ", b, " went offline">>

\* What the close of driver c of bus x sends when the bus goes offline and
\* the set notified of open subscribers of x is not empty: to that set the
\* offline error and then a client_list without x and without c, and after
\* both the client_list to every open tracked socket.
NotifiedInOrder(c, x, notified) ==
  LET list == [type |-> "client_list",
               clients |-> [o \in DOMAIN clients \ {c} |-> clients[o]],
               activeBuses |-> DOMAIN busLocations \ {x},
               clientCount |-> Cardinality(DOMAIN clients \ {c})]
  IN  sent' = <<[to |-> notified,
                 msg |-> [type |-> "error",
                          message |-> <<"Bus ", x, " went offline">>]],
                [to |-> notified, msg |-> list],
                [to |-> {o \in DOMAIN clients \ {c} : wsState[o] = "OPEN"},
                 msg |-> list]>>

\* The open subscribers of bus x, the closing socket c aside.
OpenSubscribers(c, x) ==
  IF x \in DOMAIN busSubscriptions
  THEN {o \in busSubscriptions[x] \ {c} : wsState[o] = "OPEN"}
  ELSE {}

\* C20 as stated: a close that removes the cache entry of bus x notifies the
\* open subscribers of x in order; a close that removes no cache entry sends
\* no offline error.
EvictionNotificationAsStated ==
  [][\A c \in DOMAIN clients :
       (ev'.kind = "close" /\ ev'.conn = c) =>
         IF busLocations' # busLocations
         THEN OpenSubscribers(c, clients[c].busId) # {} =>
                NotifiedInOrder(c, clients[c].busId,
                                OpenSubscribers(c, clients[c].busId))
         ELSE \A step \in Steps(sent') : ~IsOffline(step)]_vars

\* C20 amended: the close of the last tracked driver of bus x, whether x has
\* a cache entry or not, notifies the open subscribers of x in order; any
\* other close sends no offline error.
EvictionNotification ==
  [][\A c \in DOMAIN clients :
       (ev'.kind = "close" /\ ev'.conn = c) =>
         LET x == clients[c].busId
             last == /\ clients[c].type = "bus_driver"
                     /\ x # None
                     /\ \A o \in DOMAIN clients \ {c} :
                          ~(clients[o].type = "bus_driver"
                            /\ clients[o].busId = x)
         IN  IF last /\ OpenSubscribers(c, x) # {}
             THEN /\ NotifiedInOrder(c, x, OpenSubscribers(c, x))
                  /\ x \notin DOMAIN busLocations'
             ELSE \A step \in Steps(sent') : ~IsOffline(step)]_vars

\* C20 witness: the last driver of a bus closed and a subscriber of the bus
\* was sent the offline error, the client list and the final client list.
EvictionNotificationWitness ==
  /\ ev.kind = "close"
  /\ ev.bus # None
  /\ Len(sent) = 3
  /\ IsOffline(sent[1])
  /\ IsClientList(sent[2])
  /\ IsClientList(sent[3])
  /\ sent[1].to # {}
  /\ sent[2].to = sent[1].to
  /\ ev.bus \notin sent[2].msg.activeBuses

\* C21: the close of a tracked socket deletes it from the registry and from
\* every subscriber set, and the last thing sent is the client_list of the
\* remaining sockets, to every open one of them, once; the only things
\* sent before it are the offline error and the client list for the
\* subscribers of a bus that went offline.
CloseBroadcast ==
  [][\A c \in DOMAIN clients :
       (ev'.kind = "close" /\ ev'.conn = c) =>
         LET rest == DOMAIN clients \ {c}
             open == {o \in rest : wsState[o] = "OPEN"}
             list == [type |-> "client_list",
                      clients |-> [o \in rest |-> clients[o]],
                      activeBuses |-> DOMAIN busLocations',
                      clientCount |-> Cardinality(rest)]
             n == Len(sent')
         IN  /\ clients' = [o \in rest |-> clients[o]]
             /\ \A b \in DOMAIN busSubscriptions' : c \notin busSubscriptions'[b]
             /\ IF open = {} THEN sent' = <<>>
                ELSE /\ n \in {1, 3}
                     /\ sent'[n] = [to |-> open, msg |-> list]
                     /\ n = 3 => /\ IsOffline(sent'[1])
                                 /\ IsClientList(sent'[2])
                                 /\ sent'[2].to = sent'[1].to]_vars

\* C21 witness: a subscribed socket closed while another socket is open; it
\* is gone from the registry and from the index, and the one thing sent is
\* the client list to the open socket.
CloseBroadcastWitness ==
  /\ ev.kind = "close"
  /\ ev.old # None
  /\ ev.conn \notin DOMAIN clients
  /\ Len(sent) = 1
  /\ IsClientList(sent[1])
  /\ sent[1].to # {}
  /\ ev.conn \notin DOMAIN sent[1].msg.clients

\* C22: a close event, and any message, of a socket that is not in the
\* registry changes neither the registry, the cache nor the subscription
\* index and sends nothing.
IdempotentClose ==
  [][\A c \in Conns \ DOMAIN clients :
       (/\ ev'.conn = c
        /\ ev'.kind \in {"close", "register", "location_update", "subscribe",
                          "unsubscribe", "other", "malformed"}) =>
         /\ sent' = <<>>
         /\ UNCHANGED <<clients, busLocations, busSubscriptions>>]_vars

\* C22 witness: a close event was handled and nothing was sent although an
\* open socket is tracked: the closed socket had been reaped by the sweep.
IdempotentCloseWitness ==
  /\ ev.kind = "close"
  /\ sent = <<>>
  /\ \E o \in DOMAIN clients : wsState[o] = "OPEN"

ShutdownError == ErrorMsg(<<"Server is shutting down">>)

\* C23: when a termination signal is handled, every tracked socket whose
\* transport is open is sent the error "Server is shutting down", and a timer
\* is pending that closes the socket if it is still open after the grace
\* delay.
ShutdownDrain ==
  [][ev'.kind = "signal" =>
       \A c \in DOMAIN clients :
         wsState[c] = "OPEN" =>
           /\ \E i \in 1..Len(sent') :
                c \in sent'[i].to /\ sent'[i].msg = ShutdownError
           /\ c \in shut'.closeTimers]_vars

\* C24: a signal handled while a shutdown is in progress repeats nothing of
\* the cleanup: it sends nothing and sets no close timer and no server
\* timer; and neither the sweep nor the heartbeat runs once a signal has
\* been handled.
ShutdownFiresOnce ==
  [][shut.signals > 0 =>
       /\ ev'.kind \notin {"sweep", "heartbeat"}
       /\ (ev'.kind = "signal" \/ (ev'.kind = "error" /\ running')) =>
            /\ sent' = <<>>
            /\ shut'.closeTimers = shut.closeTimers
            /\ shut'.serverTimers = shut.serverTimers]_vars

\* C25: once a signal has been handled, a connection open, a register, a
\* location_update, a subscribe and an unsubscribe change neither the
\* registry, the cache nor the subscription index, and send no
\* location_broadcast.
NoEventsAfterShutdown ==
  [][(/\ shut.signals > 0
      /\ ev'.kind \in {"connection", "register", "location_update",
                        "subscribe", "unsubscribe"}) =>
       /\ UNCHANGED <<clients, busLocations, busSubscriptions>>
       /\ \A i \in 1..Len(sent') : ~IsBroadcast(sent'[i])]_vars

\* C26: while the process runs, the cache changes only in the handling of a
\* location_update and of a close; a register, a subscribe, an unsubscribe,
\* a message of unknown type and a connection open leave the cache as it is
\* and send no location_broadcast, except the replay a subscribe sends to
\* the subscribing socket alone.
CacheFrame ==
  [][running' =>
       /\ busLocations' # busLocations =>
            ev'.kind \in {"location_update", "close"}
       /\ ev'.kind \in {"register", "subscribe", "unsubscribe", "other",
                         "connection"} =>
            /\ busLocations' = busLocations
            /\ \A i \in 1..Len(sent') :
                 IsBroadcast(sent'[i]) =>
                   ev'.kind = "subscribe" /\ sent'[i].to = {ev'.conn}]_vars

MustHaveBusId(c) ==
  [to |-> {c},
   msg |-> ErrorMsg(<<"Must register with a busId to send location updates">>)]
OnlyDriversAndAdmins(c) ==
  [to |-> {c},
   msg |-> ErrorMsg(<<"Only bus drivers and admins can broadcast location updates">>)]

\* C27: a location_update of a tracked socket that carries a userId is
\* answered "Must register with a busId to send location updates" exactly
\* when the sender has no busId, and "Only bus drivers and admins can
\* broadcast location updates" exactly when the sender has a busId and its
\* role is neither bus_driver nor admin; no other event sends either text.
RejectionReason ==
  [][\A c \in Conns :
       /\ (ev'.kind = "location_update" /\ ev'.conn = c /\ c \in DOMAIN clients
            /\ sent' # SendTo(c, ErrorMsg(<<"register first with userId">>))) =>
            /\ MustHaveBusId(c) \in Steps(sent') <=> clients[c].busId = None
            /\ OnlyDriversAndAdmins(c) \in Steps(sent') <=>
                 /\ clients[c].busId # None
                 /\ clients[c].type \notin {"bus_driver", "admin"}
       /\ ev'.kind # "location_update" =>
            /\ MustHaveBusId(c) \notin Steps(sent')
            /\ OnlyDriversAndAdmins(c) \notin Steps(sent')]_vars

IndexRegistryConsistency ==
  /\ \A b \in BusIds, c \in Conns :
       (b \in DOMAIN busSubscriptions /\ c \in busSubscriptions[b]) <=>
         (c \in DOMAIN clients /\ clients[c].subscribedToBusId = b)
  /\ \A b \in DOMAIN busSubscriptions :
       /\ busSubscriptions[b] # {}
       /\ \A c \in busSubscriptions[b] : wsState[c] # "FREE"

\* C29 witness: a socket that held a subscription has closed and is gone,
\* while another socket is still in the subscriber set of a bus.
IndexRegistryConsistencyWitness ==
  /\ ev.kind = "close"
  /\ ev.old # None
  /\ ev.conn \notin DOMAIN clients
  /\ \E b \in DOMAIN busSubscriptions : busSubscriptions[b] # {}

====
